---- MODULE Spec2Model ----
(***************************************************************************)
(* Model of the Sales & Gross Profit thermometer dashboard (src/app.py):   *)
(* load_data (header scan, row reshaping, goal join), create_thermometer   *)
(* (pacing and fill arithmetic) and main (the way the page consumes them). *)
(*                                                                         *)
(* Text is a sequence of one-character strings, so that strip(), `in` and  *)
(* int() are computed on characters.  Numbers are exact fractions n/d; a   *)
(* denominator 0 stands for the non-finite floats (0/0 is NaN).            *)
(***************************************************************************)
EXTENDS Integers, Sequences, FiniteSets, TLC

(* ------------------------------ bounds --------------------------------- *)
\* data rows of the daily sheet in the row-reshaping inputs
MaxRows == 2
\* sheet columns at and after column AA in the header-scan inputs
MaxCols == 3
\* data rows of the daily sheet in the pacing inputs
MaxSeries == 2

(* ------------------------------- text ---------------------------------- *)
sSales == <<"S", "a", "l", "e", "s">>
sGP == <<"G", "P">>
sDay == <<"D", "a", "y">>
sTotal == <<"T", "o", "t", "a", "l">>
sA == <<"A">>
sB == <<"B">>
sSpace == <<" ">>
s105Sales == <<"1", "0", "5", "%", " ">> \o sSales
s105GP == <<"1", "0", "5", "%", " ">> \o sGP
sCompany == <<"C", "o", "m", "p", "a", "n", "y">>

Digits == <<"0", "1", "2", "3", "4", "5", "6", "7", "8", "9">>

IsDigit(c) == \E i \in 1..10 : Digits[i] = c

DigitVal(c) == (CHOOSE i \in 1..10 : Digits[i] = c) - 1

\* str.lstrip() / str.rstrip() / str.strip() on blanks
RECURSIVE LStrip(_)
LStrip(s) == IF s # <<>> /\ Head(s) = " " THEN LStrip(Tail(s)) ELSE s

RECURSIVE RStrip(_)
RStrip(s) ==
    IF s # <<>> /\ s[Len(s)] = " " THEN RStrip(SubSeq(s, 1, Len(s) - 1)) ELSE s

Strip(s) == RStrip(LStrip(s))

\* Python's `sub in s` on strings
Contains(s, sub) ==
    \E i \in 1..(Len(s) - Len(sub) + 1) : SubSeq(s, i, i + Len(sub) - 1) = sub

\* Python's `x in list`
InSeq(x, seq) == \E i \in 1..Len(seq) : seq[i] = x

\* str(i) of a non-negative integer
RECURSIVE IntToStr(_)
IntToStr(i) ==
    IF i < 10 THEN <<Digits[i + 1]>>
    ELSE IntToStr(i \div 10) \o <<Digits[(i % 10) + 1]>>

RECURSIVE DigitsValue(_, _)
DigitsValue(s, acc) ==
    IF s = <<>> THEN acc ELSE DigitsValue(Tail(s), 10 * acc + DigitVal(Head(s)))

\* int(str): blanks stripped, an optional sign, then decimal digits only;
\* anything else raises ValueError (ok = FALSE)
IntOfText(s) ==
    LET t == Strip(s)
        neg == t # <<>> /\ Head(t) = "-"
        signed == t # <<>> /\ Head(t) \in {"-", "+"}
        body == IF signed THEN Tail(t) ELSE t
        good == body # <<>> /\ \A i \in 1..Len(body) : IsDigit(body[i])
    IN  IF good
        THEN [ok |-> TRUE, v |-> IF neg THEN 0 - DigitsValue(body, 0)
                                        ELSE DigitsValue(body, 0)]
        ELSE [ok |-> FALSE, v |-> 0]

(* ------------------------------ numbers -------------------------------- *)
Abs(x) == IF x < 0 THEN 0 - x ELSE x

Sign(x) == IF x < 0 THEN 0 - 1 ELSE IF x > 0 THEN 1 ELSE 0

RECURSIVE GCD(_, _)
GCD(a, b) == IF b = 0 THEN a ELSE GCD(b, a % b)

\* the fraction n/d in lowest terms with d >= 0; d = 0 is +inf, -inf or NaN
Rat(n, d) ==
    IF d = 0 THEN [n |-> Sign(n), d |-> 0]
    ELSE LET g == GCD(Abs(n), Abs(d))
             s == IF d < 0 THEN 0 - 1 ELSE 1
         IN  [n |-> (s * n) \div g, d |-> (s * d) \div g]

Num(i) == Rat(i, 1)

NaN == Rat(0, 0)

Zero == Num(0)

IsNaN(a) == a.d = 0 /\ a.n = 0

IsFinite(a) == a.d # 0

RAdd(a, b) ==
    IF a.d = 0 /\ b.d = 0
    THEN (IF a.n = b.n THEN a ELSE NaN)
    ELSE Rat(a.n * b.d + b.n * a.d, a.d * b.d)

RNeg(a) == [n |-> 0 - a.n, d |-> a.d]

RSub(a, b) == RAdd(a, RNeg(b))

RMul(a, b) == Rat(a.n * b.n, a.d * b.d)

\* float division; a zero divisor gives a non-finite value (numpy scalars)
RDiv(a, b) ==
    IF b.d = 0
    THEN (IF a.d = 0 THEN NaN ELSE IF IsNaN(b) THEN NaN ELSE Zero)
    ELSE Rat(a.n * b.d * Sign(b.n), a.d * Abs(b.n))

\* a < b; every comparison with NaN is False
RLess(a, b) ==
    IF IsNaN(a) \/ IsNaN(b) THEN FALSE
    ELSE IF a.d = 0 /\ b.d = 0 THEN a.n < b.n
    ELSE IF a.d = 0 THEN a.n < 0
    ELSE IF b.d = 0 THEN b.n > 0
    ELSE a.n * b.d < b.n * a.d

\* a != b of two numbers (NaN differs from everything)
RNotEq(a, b) == IsNaN(a) \/ IsNaN(b) \/ a # b

\* the builtins min(a, b) and max(a, b): the first argument is kept unless
\* the second compares strictly below (above) it
PyMin(a, b) == IF RLess(b, a) THEN b ELSE a

PyMax(a, b) == IF RLess(a, b) THEN b ELSE a

\* a variant of int(x) that rounds down instead of toward zero
IntOfNum_floor(a) == IF a.n >= 0 THEN a.n \div a.d ELSE 0 - ((a.d - 1 - a.n) \div a.d)

\* int(x) of a finite number truncates toward zero
IntOfNum(a) == IF a.n >= 0 THEN a.n \div a.d ELSE 0 - ((0 - a.n) \div a.d)

(* ------------------------------- cells --------------------------------- *)
\* a spreadsheet cell as pandas hands it over: blank (NaN), text or a number
Blank == [k |-> "blank", s |-> <<>>, v |-> NaN]

Txt(s) == [k |-> "txt", s |-> s, v |-> NaN]

NumCell(r) == [k |-> "num", s |-> <<>>, v |-> r]

\* pd.notna(cell)
NotNa(cell) == cell.k # "blank"

\* Python values that may be None
NoneV == [none |-> TRUE, val |-> <<>>]

Some(x) == [none |-> FALSE, val |-> x]

IsNone(x) == x.none

(* ---------------------------- header scan ------------------------------ *)
\* index of column AA, where the company blocks start
StartCol == 26

\* a variant of the loop body that takes the company cell as it stands,
\* untrimmed
HeaderStep_untrimmed(acc, company, header, i) ==
    LET marker == NotNa(company) /\ Strip(company.s) # <<>>
        cur == IF marker THEN company.s ELSE acc.current
        comps == IF marker /\ ~InSeq(cur, acc.companies)
                 THEN Append(acc.companies, cur) ELSE acc.companies
        cols == acc.columns
        name == IF cur # <<>> /\ NotNa(header)
                THEN Strip(cur \o sSpace \o header.s)
                ELSE IF cur # <<>>
                THEN (IF Len(cols) > 1 /\ Contains(cols[Len(cols)], sSales)
                      THEN cur \o sSpace \o sGP
                      ELSE cur \o sSpace \o sSales)
                ELSE <<"C", "o", "l", "_">> \o IntToStr(i)
    IN  [columns |-> Append(cols, name), companies |-> comps, current |-> cur]

\* one pass of the loop body over sheet column i
HeaderStep(acc, company, header, i) ==
    LET marker == NotNa(company) /\ Strip(company.s) # <<>>
        cur == IF marker THEN Strip(company.s) ELSE acc.current
        comps == IF marker /\ ~InSeq(cur, acc.companies)
                 THEN Append(acc.companies, cur) ELSE acc.companies
        cols == acc.columns
        name == IF cur # <<>> /\ NotNa(header)
                THEN Strip(cur \o sSpace \o header.s)
                ELSE IF cur # <<>>
                THEN (IF Len(cols) > 1 /\ Contains(cols[Len(cols)], sSales)
                      THEN cur \o sSpace \o sGP
                      ELSE cur \o sSpace \o sSales)
                ELSE <<"C", "o", "l", "_">> \o IntToStr(i)
    IN  [columns |-> Append(cols, name), companies |-> comps, current |-> cur]

RECURSIVE HeaderLoop(_, _, _, _)
HeaderLoop(acc, company_row, header_row, k) ==
    IF k > Len(company_row) THEN acc
    ELSE HeaderLoop(HeaderStep(acc, company_row[k], header_row[k], StartCol + k - 1),
                    company_row, header_row, k + 1)

\* columns (with 'Day' first) and companies resolved from the two header rows;
\* the rows hold the cells of sheet columns StartCol, StartCol + 1, ...
ResolveHeader(company_row, header_row) ==
    HeaderLoop([columns |-> <<sDay>>, companies |-> <<>>, current |-> <<>>],
               company_row, header_row, 1)

(* --------------------------- row reshaping ----------------------------- *)
\* number of columns of data_df carrying the name col
ColCount(columns, col) == Cardinality({i \in 1..Len(columns) : columns[i] = col})

\* row[col] of a uniquely named column other than 'Day'
RowCell(row, columns, col) ==
    row.vals[(CHOOSE i \in 2..Len(columns) : columns[i] = col) - 1]

\* a variant that gives a row with an unreadable Day its position instead of
\* passing over it
DayOf_default(row, idx) ==
    IF NotNa(row.day)
    THEN (IF row.day.k = "num"
          THEN [skip |-> FALSE, day |-> IntOfNum(row.day.v)]
          ELSE LET p == IntOfText(row.day.s)
               IN  [skip |-> FALSE, day |-> IF p.ok THEN p.v ELSE idx + 1])
    ELSE [skip |-> FALSE, day |-> idx + 1]

\* a variant that numbers a row with a blank Day from 0
DayOf_zero_based(row, idx) ==
    IF NotNa(row.day)
    THEN (IF row.day.k = "num"
          THEN [skip |-> FALSE, day |-> IntOfNum(row.day.v)]
          ELSE LET p == IntOfText(row.day.s)
               IN  [skip |-> ~p.ok, day |-> p.v])
    ELSE [skip |-> FALSE, day |-> idx]

\* the day of a data row: skip = TRUE when the row is passed over
DayOf(row, idx) ==
    IF NotNa(row.day)
    THEN (IF row.day.k = "num"
          THEN [skip |-> FALSE, day |-> IntOfNum(row.day.v)]
          ELSE LET p == IntOfText(row.day.s)
               IN  [skip |-> ~p.ok, day |-> p.v])
    ELSE [skip |-> FALSE, day |-> idx + 1]

\* a variant of the inner loop body without the test for a nonzero value
CompanyRecord_keep_all(row, day, company, columns) ==
    LET sales_col == company \o sSpace \o sSales
        gp_col == company \o sSpace \o sGP
    IN  IF InSeq(sales_col, columns) /\ InSeq(gp_col, columns)
        THEN IF ColCount(columns, sales_col) > 1 \/ ColCount(columns, gp_col) > 1
             THEN [raise |-> TRUE, recs |-> <<>>]
             ELSE LET sc == RowCell(row, columns, sales_col)
                      gc == RowCell(row, columns, gp_col)
                  IN  [raise |-> FALSE,
                       recs |-> <<[Day |-> day, Company |-> company,
                                   Sales |-> IF NotNa(sc) THEN sc.v ELSE Zero,
                                   Gross_Profit |-> IF NotNa(gc) THEN gc.v ELSE Zero]>>]
        ELSE [raise |-> FALSE, recs |-> <<>>]

\* a variant of the inner loop body that asks for one of the two columns only
\* and reads a column that is not there as 0
CompanyRecord_either(row, day, company, columns) ==
    LET sales_col == company \o sSpace \o sSales
        gp_col == company \o sSpace \o sGP
    IN  IF InSeq(sales_col, columns) \/ InSeq(gp_col, columns)
        THEN IF ColCount(columns, sales_col) > 1 \/ ColCount(columns, gp_col) > 1
             THEN [raise |-> TRUE, recs |-> <<>>]
             ELSE LET sales_value ==
                          IF InSeq(sales_col, columns)
                             /\ NotNa(RowCell(row, columns, sales_col))
                          THEN RowCell(row, columns, sales_col).v ELSE Zero
                      gp_value ==
                          IF InSeq(gp_col, columns)
                             /\ NotNa(RowCell(row, columns, gp_col))
                          THEN RowCell(row, columns, gp_col).v ELSE Zero
                  IN  IF RNotEq(sales_value, Zero) \/ RNotEq(gp_value, Zero)
                      THEN [raise |-> FALSE,
                            recs |-> <<[Day |-> day, Company |-> company,
                                        Sales |-> sales_value,
                                        Gross_Profit |-> gp_value]>>]
                      ELSE [raise |-> FALSE, recs |-> <<>>]
        ELSE [raise |-> FALSE, recs |-> <<>>]

\* the inner loop body for one company: raise = TRUE when the truth value of
\* pd.notna(row[col]) is ambiguous because two columns carry the name col
CompanyRecord(row, day, company, columns) ==
    LET sales_col == company \o sSpace \o sSales
        gp_col == company \o sSpace \o sGP
    IN  IF InSeq(sales_col, columns) /\ InSeq(gp_col, columns)
        THEN IF ColCount(columns, sales_col) > 1 \/ ColCount(columns, gp_col) > 1
             THEN [raise |-> TRUE, recs |-> <<>>]
             ELSE LET sc == RowCell(row, columns, sales_col)
                      gc == RowCell(row, columns, gp_col)
                      sales_value == IF NotNa(sc) THEN sc.v ELSE Zero
                      gp_value == IF NotNa(gc) THEN gc.v ELSE Zero
                  IN  IF RNotEq(sales_value, Zero) \/ RNotEq(gp_value, Zero)
                      THEN [raise |-> FALSE,
                            recs |-> <<[Day |-> day, Company |-> company,
                                        Sales |-> sales_value,
                                        Gross_Profit |-> gp_value]>>]
                      ELSE [raise |-> FALSE, recs |-> <<>>]
        ELSE [raise |-> FALSE, recs |-> <<>>]

RECURSIVE CompanyLoop(_, _, _, _, _)
CompanyLoop(row, day, companies, columns, c) ==
    IF c > Len(companies) THEN [raise |-> FALSE, recs |-> <<>>]
    ELSE LET one == CompanyRecord(row, day, companies[c], columns)
         IN  IF one.raise THEN one
             ELSE LET rest == CompanyLoop(row, day, companies, columns, c + 1)
                  IN  [raise |-> rest.raise, recs |-> one.recs \o rest.recs]

\* the records of the data row at 0-based position idx
RowRecords(row, idx, columns, companies) ==
    LET d == DayOf(row, idx)
    IN  IF d.skip THEN [raise |-> FALSE, recs |-> <<>>]
        ELSE CompanyLoop(row, d.day, companies, columns, 1)

\* the loop over data_df.iterrows(); by_row keeps, for each row taken in turn,
\* the records its iteration appended
RECURSIVE RowLoop(_, _, _, _)
RowLoop(rows, columns, companies, r) ==
    IF r > Len(rows) THEN [raise |-> FALSE, recs |-> <<>>, by_row |-> <<>>]
    ELSE LET one == RowRecords(rows[r], r - 1, columns, companies)
         IN  IF one.raise THEN [raise |-> TRUE, recs |-> <<>>, by_row |-> <<>>]
             ELSE LET rest == RowLoop(rows, columns, companies, r + 1)
                  IN  [raise |-> rest.raise, recs |-> one.recs \o rest.recs,
                       by_row |-> <<one.recs>> \o rest.by_row]

\* processed_data of the whole sheet
ProcessRows(rows, columns, companies) == RowLoop(rows, columns, companies, 1)

\* pd.to_numeric(df['Day'], errors='coerce') followed by dropna: a record is
\* kept when its Day is a number
NumericDays(recs) == SelectSeq(recs, LAMBDA r : r.Day \in Int)

(* ------------------------------ goal join ------------------------------ *)
\* row.get(col, 0) of a goals row: 0 when the sheet has no such column,
\* else the cell (a blank cell is NaN)
RowGet(goals, cell, col) == IF col \in goals.cols THEN cell.v ELSE Zero

\* goals_dict: the last goals row of company x, 0 when it has none
LastRowOf(goals, x) ==
    LET hits == {i \in 1..Len(goals.rows) : goals.rows[i].Company = Txt(x)}
    IN  IF hits = {} THEN 0 ELSE CHOOSE i \in hits : \A j \in hits : j <= i

\* a variant that maps a company without a goals row to NaN, as a plain
\* Series.map(goals_dict) would
SalesGoalOf_nan(goals, x) ==
    LET i == LastRowOf(goals, x)
    IN  IF i = 0 THEN NaN
        ELSE RowGet(goals, goals.rows[i].s, s105Sales)

\* goals_dict.get(x, {}).get('Sales_Goal', 0)
SalesGoalOf(goals, x) ==
    LET i == LastRowOf(goals, x)
    IN  IF i = 0 THEN Zero
        ELSE RowGet(goals, goals.rows[i].s, s105Sales)

\* goals_dict.get(x, {}).get('GP_Goal', 0)
GPGoalOf(goals, x) ==
    LET i == LastRowOf(goals, x)
    IN  IF i = 0 THEN Zero
        ELSE RowGet(goals, goals.rows[i].g, s105GP)

\* the records with the two goal columns added
RECURSIVE AddGoals(_, _)
AddGoals(recs, goals) ==
    IF recs = <<>> THEN <<>>
    ELSE <<[Day |-> Head(recs).Day, Company |-> Head(recs).Company,
            Sales |-> Head(recs).Sales, Gross_Profit |-> Head(recs).Gross_Profit,
            Sales_Goal |-> SalesGoalOf(goals, Head(recs).Company),
            GP_Goal |-> GPGoalOf(goals, Head(recs).Company)]>>
         \o AddGoals(Tail(recs), goals)

(* ------------------------------ load_data ------------------------------ *)
ErrNoData == "No data found"
ErrLoading == "Error loading data"
ErrFailed == "Failed to load data"
InfoUpload == "Please upload your Excel file"

\* month_name_from_excel: str(cell F2) or None
MonthName(cell) == IF NotNa(cell) THEN Some(cell.s) ELSE NoneV

\* load_data(file): the returned tuple, the st.error messages it shows and
\* the header resolution (empty when the first read already raised)
load_data(f) ==
    LET h == ResolveHeader(f.company_row, f.header_row)
        p == ProcessRows(f.data_rows, h.columns, h.companies)
        df == NumericDays(p.recs)
        failed == [ret |-> <<NoneV, NoneV>>, errors |-> <<ErrLoading>>,
                   columns |-> h.columns, companies |-> h.companies,
                   by_row |-> <<>>]
    IN  IF f.kind = "corrupt"
        THEN [failed EXCEPT !.columns = <<>>, !.companies = <<>>]
        ELSE IF f.nsheets < 2 \/ p.raise THEN failed
        ELSE IF df = <<>>
        THEN [failed EXCEPT !.errors = <<ErrNoData>>, !.by_row = p.by_row]
        ELSE IF f.goals.rows # <<>> /\ sCompany \notin f.goals.cols
        THEN [failed EXCEPT !.by_row = p.by_row]
        ELSE [ret |-> <<Some(AddGoals(df, f.goals)), Some(f.goals),
                        MonthName(f.month)>>,
              errors |-> <<>>,
              columns |-> h.columns, companies |-> h.companies,
              by_row |-> p.by_row]

(* -------------------------- create_thermometer ------------------------- *)
calculate_daily_target(monthly_target, total_days, current_day) ==
    LET daily_average == RDiv(monthly_target, Num(total_days))
    IN  RMul(daily_average, Num(current_day))

tube_start_y == Rat(47, 2)

tube_height == RSub(Num(100), tube_start_y)

RECURSIVE SumOf(_)
SumOf(values) == IF values = <<>> THEN Zero ELSE RAdd(Head(values), SumOf(Tail(values)))

\* the column of company_data the metric reads
MetricValues(company_data, metric_type) ==
    [i \in 1..Len(company_data) |->
        IF metric_type = "Sales" THEN company_data[i].Sales
        ELSE company_data[i].Gross_Profit]

MetricGoal(company_data, metric_type) ==
    IF Len(company_data) > 0
    THEN (IF metric_type = "Sales" THEN company_data[1].Sales_Goal
          ELSE company_data[1].GP_Goal)
    ELSE Zero

\* a variant without the floor of one remaining day
RemainingDays_unguarded(total_days, current_day) == total_days - current_day

\* max(1, total_days - current_day) of two ints
RemainingDays(total_days, current_day) ==
    IF 1 < total_days - current_day THEN total_days - current_day ELSE 1

\* a variant that takes the greatest Day for the days elapsed
CurrentDay_max_day(company_data) ==
    IF company_data = <<>> THEN 0
    ELSE CHOOSE d \in {company_data[i].Day : i \in 1..Len(company_data)} :
            \A i \in 1..Len(company_data) : company_data[i].Day <= d

\* current_day: the number of records of the company
CurrentDay(company_data) == Len(company_data)

\* a variant that divides by the goal whatever it is
GoalIsPositive_always(monthly_target) == TRUE

\* the guard `monthly_target > 0` of the percentages
GoalIsPositive(monthly_target) == RLess(Zero, monthly_target)

\* (previous_days_value / monthly_target) * tube_height and the like
FillOf(value, monthly_target) == RMul(RDiv(value, monthly_target), tube_height)

\* a variant of the room left for the newest day that takes the whole tube
YesterdayCap_whole_tube(previous_days_percent) == tube_height

\* the room left for the newest day above the earlier days
YesterdayCap(previous_days_percent) == RSub(tube_height, previous_days_percent)

\* the numbers create_thermometer draws
create_thermometer(company_data, company_name, metric_type, total_days) ==
    LET values == MetricValues(company_data, metric_type)
        monthly_target == MetricGoal(company_data, metric_type)
        current_total == SumOf(values)
        yesterday_value == IF Len(values) > 0 THEN values[Len(values)] ELSE Zero
        previous_days_value == RSub(current_total, yesterday_value)
        current_day == CurrentDay(company_data)
        expected_position ==
            calculate_daily_target(monthly_target, total_days, current_day)
        positive == GoalIsPositive(monthly_target)
        percent_filled ==
            IF positive THEN PyMin(RDiv(current_total, monthly_target), Num(1))
            ELSE Zero
        previous_days_percent ==
            IF positive
            THEN PyMin(FillOf(previous_days_value, monthly_target), tube_height)
            ELSE Zero
        yesterday_percent ==
            IF positive
            THEN PyMin(FillOf(yesterday_value, monthly_target),
                       YesterdayCap(previous_days_percent))
            ELSE Zero
        expected_percent ==
            IF positive
            THEN RAdd(FillOf(expected_position, monthly_target), tube_start_y)
            ELSE tube_start_y
        divisor == RemainingDays(total_days, current_day)
        below == RLess(current_total, monthly_target)
    IN  [company |-> company_name, metric |-> metric_type,
         total_days |-> total_days, current_day |-> current_day,
         monthly_target |-> monthly_target, current_total |-> current_total,
         yesterday_value |-> yesterday_value,
         previous_days_value |-> previous_days_value,
         expected_position |-> expected_position,
         percent_filled |-> percent_filled,
         previous_days_percent |-> previous_days_percent,
         yesterday_percent |-> yesterday_percent,
         total_percent |-> RMul(percent_filled, tube_height),
         expected_percent |-> expected_percent,
         green_top_y |->
             RAdd(RAdd(previous_days_percent, yesterday_percent), tube_start_y),
         divisor |-> divisor,
         per_day_needed |-> RDiv(RSub(monthly_target, current_total), Num(divisor)),
         pace_line |-> below,
         percent |-> IF below THEN NoneV
                     ELSE Some(IF positive
                               THEN RMul(RDiv(current_total, monthly_target), Num(100))
                               ELSE Zero)]

(* --------------------------------- main -------------------------------- *)
\* df['Company'].unique(): the companies in order of first appearance
RECURSIVE UniqueCompanies(_)
UniqueCompanies(df) ==
    IF df = <<>> THEN <<>>
    ELSE LET rest == UniqueCompanies(SubSeq(df, 1, Len(df) - 1))
             c == df[Len(df)].Company
         IN  IF InSeq(c, rest) THEN rest ELSE Append(rest, c)

\* insertion of a record into a list sorted by Day, after its equals
RECURSIVE InsertByDay(_, _)
InsertByDay(sorted, r) ==
    IF sorted = <<>> THEN <<r>>
    ELSE IF sorted[Len(sorted)].Day <= r.Day THEN Append(sorted, r)
    ELSE Append(InsertByDay(SubSeq(sorted, 1, Len(sorted) - 1), r),
                sorted[Len(sorted)])

RECURSIVE SortByDay(_)
SortByDay(recs) ==
    IF recs = <<>> THEN <<>>
    ELSE InsertByDay(SortByDay(SubSeq(recs, 1, Len(recs) - 1)), recs[Len(recs)])

\* df[df['Company'] == company].sort_values('Day')
CompanyData(df, company) ==
    SortByDay(SelectSeq(df, LAMBDA r : r.Company = company))

VARIABLES
    file,          \* the uploaded workbook (kind "none": nothing uploaded)
    days_input,    \* what the user leaves in the "Total Days" inputs, per company
    pc,            \* position in main()
    ret,           \* the tuple load_data returned
    columns,       \* data_df.columns as resolved by load_data
    companies,     \* the company list resolved by load_data
    by_row,        \* the records load_data appended, per data row
    messages,      \* st.error / st.info texts shown so far
    escaped,       \* the exception that left main(), "" when none
    company_total_days,  \* main's dictionary, as the values in company order
    charts         \* the thermometers drawn so far

vars == <<file, days_input, pc, ret, columns, companies, by_row, messages, escaped,
          company_total_days, charts>>

\* the dataframe main() works on and its companies
MainDf == ret[1].val

MainCompanies == UniqueCompanies(MainDf)

\* lines 495-502 and 626-627: nothing uploaded gives the hint, otherwise
\* load_data is called
MainStart ==
    /\ pc = "start"
    /\ IF file.kind = "none"
       THEN /\ messages' = Append(messages, InfoUpload)
            /\ pc' = "done"
            /\ UNCHANGED <<ret, columns, companies, by_row>>
       ELSE LET r == load_data(file)
            IN  /\ ret' = r.ret
                /\ columns' = r.columns
                /\ companies' = r.companies
                /\ by_row' = r.by_row
                /\ messages' = messages \o r.errors
                /\ pc' = "unpack"
    /\ UNCHANGED <<file, days_input, escaped, company_total_days, charts>>

\* lines 502-504 and 623-624: the three-name unpacking of load_data's
\* result and the test that guards the dashboard
MainUnpack ==
    /\ pc = "unpack"
    /\ IF Len(ret) # 3
       THEN /\ escaped' = "ValueError"
            /\ pc' = "crashed"
            /\ UNCHANGED messages
       ELSE IF ~IsNone(ret[1]) /\ ~IsNone(ret[2])
       THEN /\ pc' = "controls"
            /\ UNCHANGED <<escaped, messages>>
       ELSE /\ messages' = Append(messages, ErrFailed)
            /\ pc' = "done"
            /\ UNCHANGED escaped
    /\ UNCHANGED <<file, days_input, ret, columns, companies, by_row,
                   company_total_days, charts>>

\* lines 521-528: one number input per company
NumberInput ==
    /\ pc = "controls"
    /\ LET i == Len(company_total_days) + 1
       IN  /\ company_total_days' = Append(company_total_days, days_input[i])
           /\ pc' = IF i = Len(MainCompanies) THEN "sales" ELSE "controls"
    /\ UNCHANGED <<file, days_input, ret, columns, companies, by_row, messages,
                   escaped, charts>>

\* the chart of the next company in the loop of the given metric
NextChart(metric_type, drawn) ==
    LET company == MainCompanies[drawn + 1]
    IN  create_thermometer(CompanyData(MainDf, company), company, metric_type,
                           company_total_days[drawn + 1])

\* lines 581-592: the sales thermometer of the next company
RenderSales ==
    /\ pc = "sales"
    /\ charts' = Append(charts, NextChart("Sales", Len(charts)))
    /\ pc' = IF Len(charts) + 1 = Len(MainCompanies) THEN "gp" ELSE "sales"
    /\ UNCHANGED <<file, days_input, ret, columns, companies, by_row, messages,
                   escaped, company_total_days>>

\* lines 606-617: the gross profit thermometer of the next company
RenderGP ==
    /\ pc = "gp"
    /\ charts' = Append(charts,
                        NextChart("Gross Profit", Len(charts) - Len(MainCompanies)))
    /\ pc' = IF Len(charts) + 1 = 2 * Len(MainCompanies) THEN "done" ELSE "gp"
    /\ UNCHANGED <<file, days_input, ret, columns, companies, by_row, messages,
                   escaped, company_total_days>>

Next == MainStart \/ MainUnpack \/ NumberInput \/ RenderSales \/ RenderGP

(* ------------------------------- inputs -------------------------------- *)
\* the value the "Total Days" inputs start with
DefaultTotalDays == 22

\* every input left as it is
DefaultInputs == [i \in 1..(MaxCols + 1) |-> DefaultTotalDays]

NoGoals == [cols |-> {}, rows |-> <<>>]

Workbook(company_row, header_row, data_rows, goals) ==
    [kind |-> "xlsx", nsheets |-> 2, company_row |-> company_row,
     header_row |-> header_row, data_rows |-> data_rows, goals |-> goals,
     month |-> Txt(<<"M", "a", "y">>)]

GoalRow(company, sales_goal, gp_goal) ==
    [Company |-> Txt(company), s |-> sales_goal, g |-> gp_goal]

AllGoalCols == {sCompany, s105Sales, s105GP}

\* a goals sheet with a row for company A
GoalsForA == [cols |-> AllGoalCols,
              rows |-> <<GoalRow(sA, NumCell(Num(1000)), NumCell(Num(500)))>>]

\* nothing uploaded, an unreadable upload, a workbook without a second sheet
\* and a workbook whose goals sheet has no 'Company' column
NoFile == [kind |-> "none", nsheets |-> 0, company_row |-> <<>>,
           header_row |-> <<>>, data_rows |-> <<>>, goals |-> NoGoals,
           month |-> Blank]

OneRow == <<[day |-> NumCell(Num(1)),
             vals |-> <<NumCell(Num(100)), NumCell(Num(10))>>]>>

StdCompanyRow == <<Txt(sA), Blank>>

StdHeaderRow == <<Txt(sSales), Txt(sGP)>>

SpecialFiles ==
    {NoFile,
     [NoFile EXCEPT !.kind = "corrupt"],
     [Workbook(StdCompanyRow, StdHeaderRow, OneRow, NoGoals) EXCEPT !.nsheets = 1],
     Workbook(StdCompanyRow, StdHeaderRow, OneRow,
              [cols |-> {s105Sales, s105GP},
               rows |-> <<[Company |-> Blank, s |-> NumCell(Num(1000)),
                           g |-> NumCell(Num(500))]>>])}

\* all tables of 1..max rows drawn from rows
Tables(rows, max) == UNION {[1..k -> rows] : k \in 1..max}

\* Day cells: blank, 0, a negative and a positive non-integral number, a
\* label and a number typed as text
DayCells ==
    {Blank, NumCell(Num(0)), NumCell(Rat(0 - 3, 2)), NumCell(Rat(5, 2)),
     Txt(sTotal), Txt(<<" ", "2">>)}

SalesCells == {Blank, NumCell(Zero), NumCell(Num(100))}

GPCells == {NumCell(Zero), NumCell(Num(10))}

\* the rows of a sheet with one Sales and one GP column
RowsOver(days, sales, gps) ==
    {[day |-> d, vals |-> <<s, g>>] : d \in days, s \in sales, g \in gps}

\* the scenario of the specification: Sales 100, 0, 200 and GP 10, 0, 20
ScenarioRows ==
    <<[day |-> NumCell(Num(1)), vals |-> <<NumCell(Num(100)), NumCell(Num(10))>>],
      [day |-> NumCell(Num(2)), vals |-> <<NumCell(Zero), NumCell(Zero)>>],
      [day |-> NumCell(Num(3)), vals |-> <<NumCell(Num(200)), NumCell(Num(20))>>]>>

\* a sheet whose data row at index 4 has a blank Day, after rows with a
\* label, 0, a negative number and a number typed as text for Day
BlankDayRows ==
    [r \in 1..5 |->
        [day |-> <<Txt(sTotal), NumCell(Num(0)), NumCell(Rat(0 - 3, 2)),
                   Txt(<<" ", "2">>), Blank>>[r],
         vals |-> <<NumCell(Num(100)), NumCell(Num(10))>>]]

\* a sheet with the blocks of two companies: a first row with any Day cell
\* and a second row for day 4
TwoCompanyRows(day) ==
    <<[day |-> day,
       vals |-> <<NumCell(Num(100)), NumCell(Num(10)), NumCell(Num(100)), Blank>>],
      [day |-> NumCell(Num(4)),
       vals |-> <<NumCell(Num(100)), NumCell(Num(10)), Blank, NumCell(Num(10))>>]>>

\* workbooks with one company block and every table of Day and value cells
RowFile(f) ==
    \/ \E k \in 1..MaxRows : \E t \in [1..k -> RowsOver(DayCells, SalesCells, GPCells)] :
          f = Workbook(StdCompanyRow, StdHeaderRow, t, GoalsForA)
    \/ f = Workbook(StdCompanyRow, StdHeaderRow, ScenarioRows, GoalsForA)
    \/ f = Workbook(StdCompanyRow, StdHeaderRow, BlankDayRows, GoalsForA)
    \/ \E day \in DayCells :
          f = Workbook(<<Txt(sA), Blank, Txt(sB), Blank>>,
                       <<Txt(sSales), Txt(sGP), Txt(sSales), Txt(sGP)>>,
                       TwoCompanyRows(day), GoalsForA)

Start ==
    /\ pc = "start"
    /\ ret = <<>>
    /\ columns = <<>>
    /\ companies = <<>>
    /\ by_row = <<>>
    /\ messages = <<>>
    /\ escaped = ""
    /\ company_total_days = <<>>
    /\ charts = <<>>

Init ==
    /\ file \in SpecialFiles \/ RowFile(file)
    /\ days_input = DefaultInputs
    /\ Start

Spec == Init /\ [][Next]_vars

(* header-scan inputs: every pair of header rows over MaxCols columns, one
   data row whose odd columns hold one value and whose even columns another *)
CompanyCells == {Blank, Txt(sA), Txt(sB)}

HeaderCells == {Blank, Txt(sSales), Txt(sGP)}

LayoutValues == {Zero, Num(100)}

LayoutDayCells == {NumCell(Num(3)), Txt(sTotal)}

LayoutFile(f) ==
    \E company_row \in [1..MaxCols -> CompanyCells] :
    \E header_row \in [1..MaxCols -> HeaderCells] :
    \E odd \in LayoutValues : \E even \in LayoutValues :
    \E day \in LayoutDayCells :
        f = Workbook(company_row, header_row,
                     <<[day |-> day,
                        vals |-> [i \in 1..MaxCols |->
                                    NumCell(IF i % 2 = 1 THEN odd ELSE even)]]>>,
                     GoalsForA)

InitLayout ==
    /\ file \in SpecialFiles \/ LayoutFile(file)
    /\ days_input = DefaultInputs
    /\ Start

SpecLayout == InitLayout /\ [][Next]_vars

(* company-name inputs: header rows whose company cells hold a name, the
   same name with blanks around it or a name that contains "Sales", over
   MaxCols columns, with one data row of nonzero values *)
NamedCompanyCells ==
    {Blank, Txt(sA), Txt(sSpace \o sA \o sSpace), Txt(sSales \o sB)}

HeaderFile(f) ==
    \E company_row \in [1..MaxCols -> NamedCompanyCells] :
    \E header_row \in [1..MaxCols -> HeaderCells] :
        f = Workbook(company_row, header_row,
                     <<[day |-> NumCell(Num(1)),
                        vals |-> [i \in 1..MaxCols |-> NumCell(Num(100))]]>>,
                     GoalsForA)

InitHeader ==
    /\ file \in SpecialFiles \/ HeaderFile(file)
    /\ days_input = DefaultInputs
    /\ Start

SpecHeader == InitHeader /\ [][Next]_vars

(* pacing inputs: one company block, numeric days in any order, values of
   either sign, a range of goals sheets and of "Total Days" entries *)
PaceDayCells == {NumCell(Num(2)), NumCell(Num(9))}

PaceSalesCells ==
    {NumCell(Zero), NumCell(Num(0 - 100)), NumCell(Num(100)), NumCell(Num(600))}

PaceGPCells == {NumCell(Num(50))}

TotalDaysInputs == {1, 2, 3, 20}

GoalSheets ==
    {[cols |-> AllGoalCols, rows |-> <<GoalRow(sA, s, g)>>] :
        s \in {Blank, NumCell(Zero), NumCell(Num(1000))},
        g \in {NumCell(Zero), NumCell(Num(100))}}
    \cup
    {NoGoals,
     \* no row for company A
     [cols |-> AllGoalCols,
      rows |-> <<GoalRow(sB, NumCell(Num(1000)), NumCell(Num(100)))>>],
     \* the name of company A with a trailing blank
     [cols |-> AllGoalCols,
      rows |-> <<GoalRow(sA \o sSpace, NumCell(Num(1000)), NumCell(Num(100)))>>],
     \* no '105% Sales' column
     [cols |-> {sCompany, s105GP},
      rows |-> <<GoalRow(sA, Blank, NumCell(Num(100)))>>],
     \* two rows for company A
     [cols |-> AllGoalCols,
      rows |-> <<GoalRow(sA, NumCell(Num(1000)), NumCell(Num(100))),
                 GoalRow(sA, NumCell(Num(500)), Blank)>>]}

PaceFile(f) ==
    \E k \in 1..MaxSeries :
    \E t \in [1..k -> RowsOver(PaceDayCells, PaceSalesCells, PaceGPCells)] :
    \E g \in GoalSheets :
        f = Workbook(StdCompanyRow, StdHeaderRow, t, g)

InitThermo ==
    /\ file \in SpecialFiles \/ PaceFile(file)
    /\ \E total_days \in TotalDaysInputs :
          days_input = [DefaultInputs EXCEPT ![1] = total_days]
    /\ Start

SpecThermo == InitThermo /\ [][Next]_vars

(* ------------------------------ properties ----------------------------- *)
\* load_data has been called on an upload
Loaded == pc # "start" /\ file.kind # "none"

\* load_data took one of its two failure exits
LoadFailed == Loaded /\ Len(ret) = 2

\* load_data returned a table
HasTable == Loaded /\ Len(ret) = 3 /\ ~IsNone(ret[1])

\* the row loop of load_data ran to its end
Traced == Loaded /\ Len(by_row) = Len(file.data_rows) /\ by_row # <<>>

Rows == file.data_rows

\* a Day cell holding text that int() rejects
Unparseable(cell) == cell.k = "txt" /\ ~IntOfText(cell.s).ok

RECURSIVE Flatten(_)
Flatten(seqs) == IF seqs = <<>> THEN <<>> ELSE Head(seqs) \o Flatten(Tail(seqs))

\* the four fields of an output record that come from the daily sheet
Daily(rec) == [Day |-> rec.Day, Company |-> rec.Company, Sales |-> rec.Sales,
               Gross_Profit |-> rec.Gross_Profit]

\* the output table holds the records of the rows, in row order, and no others
TableIsByRow ==
    HasTable => [i \in 1..Len(MainDf) |-> Daily(MainDf[i])] = Flatten(by_row)

\* the value a data row holds for a company column, a blank cell counted as 0
ValueOf(row, col) ==
    IF NotNa(RowCell(row, columns, col)) THEN RowCell(row, columns, col).v ELSE Zero

\* C1: whenever load_data fails, the failure becomes an error message and
\* main() ends normally: no exception leaves main() and nothing is drawn
C1_LoadFailureHandled ==
    LoadFailed =>
        /\ escaped = ""
        /\ pc \in {"unpack", "done"}
        /\ messages # <<>>
        /\ charts = <<>>

\* the table with the row at position r emptied
WithoutRow(rows, r) ==
    [j \in 1..Len(rows) |->
        IF j = r THEN [day |-> Blank, vals |-> [i \in 1..Len(rows[j].vals) |-> Blank]]
        ELSE rows[j]]

\* C2: a data row whose Day cell is text that does not parse as an integer
\* contributes no record to the output table, whatever its values, and the
\* records of the other rows are what they are without it
C2_TextDayRowExcluded ==
    Traced =>
        /\ TableIsByRow
        /\ \A r \in 1..Len(Rows) :
              Unparseable(Rows[r].day) =>
                  /\ by_row[r] = <<>>
                  /\ \A j \in 1..Len(Rows) :
                        j # r => by_row[j] =
                            ProcessRows(WithoutRow(Rows, r), columns, companies).by_row[j]

C2_Witness ==
    /\ HasTable /\ Traced /\ Len(companies) = 2
    /\ \E r \in 1..Len(Rows) :
          /\ Rows[r] = TwoCompanyRows(Txt(sTotal))[1]
          /\ by_row[r] = <<>>
          /\ \E j \in 1..Len(Rows) : j # r /\ Len(by_row[j]) = 2

\* C3: no record of the output table has Sales = 0 and Gross_Profit = 0, a
\* blank cell counting as 0; for Sales 100, 0, 200 and GP 10, 0, 20 on days
\* 1..3 the day-2 record is absent and the totals are 300 and 30
C3_NoAllZeroRecord ==
    /\ HasTable =>
          \A i \in 1..Len(MainDf) :
              ~(MainDf[i].Sales = Zero /\ MainDf[i].Gross_Profit = Zero)
    /\ Traced =>
          \A r \in 1..Len(Rows) : \A c \in 1..Len(companies) :
              LET sales_col == companies[c] \o sSpace \o sSales
                  gp_col == companies[c] \o sSpace \o sGP
              IN  (/\ ColCount(columns, sales_col) = 1
                   /\ ColCount(columns, gp_col) = 1
                   /\ ValueOf(Rows[r], sales_col) = Zero
                   /\ ValueOf(Rows[r], gp_col) = Zero)
                  => \A j \in 1..Len(by_row[r]) : by_row[r][j].Company # companies[c]
    /\ (HasTable /\ Rows = ScenarioRows) =>
          /\ \A i \in 1..Len(MainDf) : MainDf[i].Day # 2
          /\ pc = "done" =>
                /\ charts[1].current_total = Num(300)
                /\ charts[2].current_total = Num(30)

C3_Witness ==
    /\ pc = "done" /\ HasTable /\ Rows = ScenarioRows
    /\ Len(MainDf) = 2 /\ Len(charts) = 2

\* C4 as claimed: every record of the output table has an integer Day >= 1
C4_DayAtLeastOne ==
    HasTable => \A i \in 1..Len(MainDf) : MainDf[i].Day \in Int /\ MainDf[i].Day >= 1

\* x is the number n/d cut toward zero
IsTruncationOf(x, q) ==
    /\ Abs(x) * q.d <= Abs(q.n)
    /\ Abs(q.n) < (Abs(x) + 1) * q.d
    /\ x # 0 => Sign(x) = Sign(q.n)

\* C4 as amended: every record has an integer Day, which is the row's
\* position plus 1 for a blank Day cell and the cell's value cut toward zero
\* otherwise; it is at least 1 exactly when the cell is blank or holds a
\* value of at least 1
C4_DayIsTruncatedCell ==
    /\ TableIsByRow
    /\ Traced =>
          \A r \in 1..Len(Rows) : \A j \in 1..Len(by_row[r]) :
              LET day == by_row[r][j].Day
                  cell == Rows[r].day
                  value == IF cell.k = "num" THEN cell.v ELSE Num(IntOfText(cell.s).v)
              IN  /\ day \in Int
                  /\ cell.k = "blank" => day = r
                  /\ cell.k = "txt" => IntOfText(cell.s).ok
                  /\ cell.k # "blank" =>
                        /\ IsTruncationOf(day, value)
                        /\ day >= 1 <=> ~RLess(value, Num(1))

C4_Witness ==
    /\ HasTable
    /\ \E i \in 1..Len(MainDf) : MainDf[i].Day = 0
    /\ \E i \in 1..Len(MainDf) : MainDf[i].Day = 0 - 1

\* C8: the records of a data row with a blank Day cell carry the row's
\* 0-based position plus 1 as Day, whatever the Day cells of the other rows
\* hold, and the row is not passed over
C8_BlankDayIsOrdinal ==
    Traced =>
        \A r \in 1..Len(Rows) :
            Rows[r].day = Blank =>
                /\ \A j \in 1..Len(by_row[r]) : by_row[r][j].Day = (r - 1) + 1
                /\ \A c \in 1..Len(companies) :
                      LET sales_col == companies[c] \o sSpace \o sSales
                          gp_col == companies[c] \o sSpace \o sGP
                      IN  (/\ ColCount(columns, sales_col) = 1
                           /\ ColCount(columns, gp_col) = 1
                           /\ \/ ValueOf(Rows[r], sales_col) # Zero
                              \/ ValueOf(Rows[r], gp_col) # Zero)
                          => \E j \in 1..Len(by_row[r]) :
                                by_row[r][j].Company = companies[c]

C8_Witness ==
    /\ HasTable /\ Rows = BlankDayRows
    /\ by_row[5] # <<>> /\ by_row[5][1].Day = 5
    /\ \E i \in 1..Len(MainDf) : MainDf[i].Day = 5

\* the company has a row in the goals sheet
HasGoalRow(company) ==
    \E i \in 1..Len(file.goals.rows) : file.goals.rows[i].Company = Txt(company)

\* C5: a company with records in the daily data and no row in the goals
\* sheet has Sales_Goal = 0 and GP_Goal = 0 in every record, and load_data
\* does not fail for want of the row
C5_NoGoalRowGivesZeroGoals ==
    /\ HasTable =>
          \A i \in 1..Len(MainDf) :
              ~HasGoalRow(MainDf[i].Company) =>
                  MainDf[i].Sales_Goal = Zero /\ MainDf[i].GP_Goal = Zero
    /\ (/\ Traced
        /\ Flatten(by_row) # <<>>
        /\ file.goals.rows = <<>> \/ sCompany \in file.goals.cols)
       => HasTable /\ messages = <<>>

C5_Witness ==
    /\ HasTable /\ pc = "done" /\ file.goals.rows # <<>>
    /\ \E i \in 1..Len(MainDf) :
          /\ ~HasGoalRow(MainDf[i].Company)
          /\ MainDf[i].Sales_Goal = Zero /\ MainDf[i].GP_Goal = Zero
    /\ charts[1].monthly_target = Zero

\* the number of records the table holds for a company
RecordCount(company) ==
    Cardinality({i \in 1..Len(MainDf) : MainDf[i].Company = company})

Charts == {charts[i] : i \in 1..Len(charts)}

\* C6: the divisor of per_day_needed is max(1, total_days - record count),
\* so at least 1 whether the record count is below, at or above total_days;
\* nothing is divided by zero, and with total_days equal to the record
\* count per_day_needed is monthly_target - current_total, negative or not
C6_PerDayNeededDivisor ==
    \A ch \in Charts :
        LET count == RecordCount(ch.company)
            left == ch.total_days - count
            gap == RSub(ch.monthly_target, ch.current_total)
        IN  /\ ch.divisor >= 1
            /\ ch.divisor >= left
            /\ ch.divisor = 1 \/ ch.divisor = left
            /\ IsFinite(ch.monthly_target) =>
                  /\ IsFinite(ch.per_day_needed)
                  /\ RMul(ch.per_day_needed, Num(ch.divisor)) = gap
            /\ ch.total_days = count => ch.per_day_needed = gap

C6_Witness ==
    \E ch \in Charts :
        /\ ch.total_days = RecordCount(ch.company)
        /\ ch.divisor = 1
        /\ ch.monthly_target = Num(1000)
        /\ ch.per_day_needed = Num(0 - 200)

\* C7: the expected pace position is (monthly goal / total days) times the
\* number of records of the company, not the greatest Day among them; goal
\* 1000, 20 total days and 2 records give 100 whatever the two Day values
C7_PaceUsesRecordCount ==
    \A ch \in Charts :
        /\ ch.expected_position =
              RMul(RDiv(ch.monthly_target, Num(ch.total_days)),
                   Num(RecordCount(ch.company)))
        /\ (/\ ch.monthly_target = Num(1000)
            /\ ch.total_days = 20
            /\ RecordCount(ch.company) = 2)
           => ch.expected_position = Num(100)

C7_Witness ==
    /\ \E ch \in Charts :
          /\ ch.monthly_target = Num(1000) /\ ch.total_days = 20
          /\ RecordCount(ch.company) = 2
          /\ ch.expected_position = Num(100)
    /\ \A i \in 1..Len(MainDf) : MainDf[i].Day = 9

\* C9: with a monthly goal of 0 create_thermometer divides by no zero and
\* takes percent-complete as 0: percent_filled, the previous-days fill, the
\* yesterday fill and the percent of goal it displays are 0 and the pace
\* position is the tube start, whatever the accumulated total
C9_ZeroGoalIsZeroPercent ==
    \A ch \in Charts :
        ch.monthly_target = Zero =>
            /\ ch.percent_filled = Zero
            /\ ch.previous_days_percent = Zero
            /\ ch.yesterday_percent = Zero
            /\ ch.total_percent = Zero
            /\ ch.expected_percent = tube_start_y
            /\ ~IsNone(ch.percent) => ch.percent.val = Zero
            /\ IsFinite(ch.expected_position)
            /\ IsFinite(ch.per_day_needed)
            /\ IsFinite(ch.green_top_y)

C9_Witness ==
    /\ \E ch \in Charts :
          /\ ch.monthly_target = Zero /\ RLess(Zero, ch.current_total)
          /\ ~IsNone(ch.percent) /\ ch.percent.val = Zero
    /\ \E ch \in Charts :
          /\ ch.monthly_target = Zero /\ RLess(ch.current_total, Zero)
          /\ ch.expected_percent = tube_start_y /\ ch.pace_line

\* a Day cell the row loop accepts
Accepted(cell) == cell.k \in {"blank", "num"} \/ IntOfText(cell.s).ok

\* a company column read by name, a missing column or blank cell counted as 0
ValueOrZero(row, col) == IF ColCount(columns, col) = 1 THEN ValueOf(row, col) ELSE Zero

HasRecordFor(r, company) ==
    \E j \in 1..Len(by_row[r]) : by_row[r][j].Company = company

\* C10 as claimed: for every data row with an accepted day and every company
\* of the company list a record is emitted whenever one of its Sales and GP
\* values is nonzero, a missing value counted as 0, also when only one of
\* the two columns was resolved
C10_RecordWheneverNonzero ==
    Traced =>
        \A r \in 1..Len(Rows) : \A c \in 1..Len(companies) :
            (/\ Accepted(Rows[r].day)
             /\ \/ ValueOrZero(Rows[r], companies[c] \o sSpace \o sSales) # Zero
                \/ ValueOrZero(Rows[r], companies[c] \o sSpace \o sGP) # Zero)
            => HasRecordFor(r, companies[c])

\* C10 as amended: when load_data gets through the rows, a row with an
\* accepted day gives a company whose Sales and GP columns were both
\* resolved a record exactly when one of the two values is nonzero (a blank
\* cell counted as 0), holding the two values; a company with only one of
\* the two columns resolved gets no record; and when both names are
\* resolved and one of them names two columns, load_data fails at the first
\* row with an accepted day
C10_RecordNeedsBothColumns ==
    /\ Traced =>
          \A r \in 1..Len(Rows) : \A c \in 1..Len(companies) :
              LET sales_col == companies[c] \o sSpace \o sSales
                  gp_col == companies[c] \o sSpace \o sGP
                  both == InSeq(sales_col, columns) /\ InSeq(gp_col, columns)
              IN  /\ (Accepted(Rows[r].day) /\ both) =>
                        /\ ColCount(columns, sales_col) = 1
                        /\ ColCount(columns, gp_col) = 1
                        /\ HasRecordFor(r, companies[c]) <=>
                              \/ ValueOf(Rows[r], sales_col) # Zero
                              \/ ValueOf(Rows[r], gp_col) # Zero
                        /\ \A j \in 1..Len(by_row[r]) :
                              by_row[r][j].Company = companies[c] =>
                                  /\ by_row[r][j].Sales = ValueOf(Rows[r], sales_col)
                                  /\ by_row[r][j].Gross_Profit = ValueOf(Rows[r], gp_col)
                  /\ ~both => ~HasRecordFor(r, companies[c])
    /\ (/\ Loaded /\ file.kind = "xlsx" /\ file.nsheets = 2
        /\ \E r \in 1..Len(Rows) : Accepted(Rows[r].day)
        /\ \E c \in 1..Len(companies) :
              LET sales_col == companies[c] \o sSpace \o sSales
                  gp_col == companies[c] \o sSpace \o sGP
              IN  /\ InSeq(sales_col, columns) /\ InSeq(gp_col, columns)
                  /\ ColCount(columns, sales_col) > 1 \/ ColCount(columns, gp_col) > 1)
       => LoadFailed /\ messages[1] = ErrLoading

C10_Witness ==
    /\ Traced /\ HasTable
    /\ \E c \in 1..Len(companies) :
          /\ InSeq(companies[c] \o sSpace \o sSales, columns)
          /\ ~InSeq(companies[c] \o sSpace \o sGP, columns)
          /\ ValueOf(Rows[1], companies[c] \o sSpace \o sSales) = Num(100)
          /\ ~HasRecordFor(1, companies[c])

\* the header scan of load_data ran on the upload
Scanned == Loaded /\ file.kind = "xlsx" /\ Len(columns) = Len(file.company_row) + 1

\* sheet column k (counted from column AA as 1) holds a company name
IsMarker(k) == NotNa(file.company_row[k]) /\ Strip(file.company_row[k].s) # <<>>

\* the nearest company cell at or to the left of column k, 0 when none
MarkerOf(k) ==
    IF \E m \in 1..k : IsMarker(m)
    THEN CHOOSE m \in 1..k : IsMarker(m) /\ \A j \in (m + 1)..k : ~IsMarker(j)
    ELSE 0

\* the name resolved for sheet column k
ColumnName(k) == columns[k + 1]

\* the columns m..e are the block of the company cell at m
IsBlock(m, e) ==
    /\ IsMarker(m)
    /\ \A j \in (m + 1)..e : ~IsMarker(j)
    /\ e = Len(file.company_row) \/ IsMarker(e + 1)

\* C11: when every sub-header cell of a company's block is blank, the names
\* of the block alternate "{company} Sales", "{company} GP", ..., starting
\* with Sales at the company cell, for every company name and whatever
\* column precedes the block
C11_BlankBlockAlternates ==
    Scanned =>
        \A m \in 1..Len(file.company_row) : \A e \in m..Len(file.company_row) :
            (IsBlock(m, e) /\ \A j \in m..e : ~NotNa(file.header_row[j])) =>
                \A j \in m..e :
                    ColumnName(j) =
                        Strip(file.company_row[m].s) \o sSpace
                        \o (IF (j - m) % 2 = 0 THEN sSales ELSE sGP)

FieldOrZero(cell, col) ==
    IF col \notin file.goals.cols \/ ~NotNa(cell) THEN Zero ELSE cell.v

\* C13: each company of the goals sheet is mapped to its 105% Sales and
\* 105% GP fields, and a missing field gives the goal 0, both when the
\* column is absent from the sheet and when the company's cell is blank
C13_MissingFieldGivesZeroGoal ==
    HasTable =>
        \A i \in 1..Len(MainDf) :
            HasGoalRow(MainDf[i].Company) =>
                LET row == file.goals.rows[LastRowOf(file.goals, MainDf[i].Company)]
                IN  /\ MainDf[i].Sales_Goal = FieldOrZero(row.s, s105Sales)
                    /\ MainDf[i].GP_Goal = FieldOrZero(row.g, s105GP)

\* every value of the chart's series is zero or more
NonNegativeSeries(ch) ==
    LET values == MetricValues(CompanyData(MainDf, ch.company), ch.metric)
    IN  \A i \in 1..Len(values) : ~RLess(values[i], Zero)

\* the two stacked segments of a chart together
StackedFill(ch) == RAdd(ch.previous_days_percent, ch.yesterday_percent)

====
